---- MODULE Spec2Model ----
(***************************************************************************)
(* Model of adf-parallel-terraform.py: the orchestrator that fans one      *)
(* terraform stage (install, init, plan, apply) out over a list of         *)
(* workspaces, either synchronously or as multiprocessing.Process tasks    *)
(* polled by a bounded scheduling loop, and that prints a summary and      *)
(* sets the exit status.                                                   *)
(*                                                                         *)
(* Python values are modelled as follows.  None is the empty sequence and  *)
(* a present value v is <<v>> (exit codes, exit status, printed lines).    *)
(* The value of max_processes is a record [kind, val]: kind "int" for the  *)
(* int() result, kind "str" for a string read from the environment (val    *)
(* is then the number the string spells).  Python lists are sequences and  *)
(* the dict child_processes is the sequence of its keys in insertion       *)
(* order together with the per-key process state proc.                     *)
(***************************************************************************)
EXTENDS Integers, Sequences, FiniteSets, TLC

\* ------------------------------------------------------------------ bounds
MaxWs == 2            \* longest workspace list given on the command line
MaxMemSteps == 2      \* host memory is 256 MiB + k * 512 MiB, k in 0..MaxMemSteps

\* the work dirs: as many as a workspace list can name
PathOrder == << "ws/a", "ws/b", "ws/c", "ws/d" >>
Paths == {PathOrder[i] : i \in 1..MaxWs}

\* the signals 1..64 that do not end a Python process: SIGINT is turned into
\* KeyboardInterrupt, SIGPIPE and SIGXFSZ are ignored by the interpreter,
\* SIGCHLD, SIGURG and SIGWINCH are ignored by default, SIGCONT, SIGSTOP,
\* SIGTSTP, SIGTTIN and SIGTTOU continue or stop the process
NotFatal == {2, 13, 25, 17, 23, 28, 18, 19, 20, 21, 22}

\* the signals that end a task's process
Signals == (1..64) \ NotFatal

\* ------------------------------------------------- program constants
PageSize == 4096              \* os.sysconf('SC_PAGE_SIZE') of the modelled host
KiB == 1024                   \* 1024.**2 is KiB * KiB
DefaultMemPerProcess == 512   \* os.environ.get("MEM_PER_PROCESS", 512)
ProgressEvery == 20           \* loop_count % 20

Stages == {"install", "init", "plan", "apply"}
None == << >>

VARIABLES
    stage,               \* args.stage
    parallel,            \* args.enable_parallelism
    workspaces,          \* args.workspaces
    phys_pages,          \* os.sysconf('SC_PHYS_PAGES')
    env,                 \* os.environ: MEM_PER_PROCESS, MAX_PROCESSES (None or <<n>>)
    real_dir,            \* per path: the first path that names the same directory
                         \* with the same last component (ws/a for ./ws/a)
    pc,                  \* position of main: setup, scan, sleep, summary, exited
    setup_idx,           \* 1-based position of the stage's for loop in workspaces
    child_keys,          \* child_processes.keys(), insertion order
    proc,                \* per path: the Process object registered under that key
    lock_held,           \* the locks currently held (a lock is named by its owner)
    waiting_processes,
    running_processes,
    failed_processes,
    completed_processes,
    loop_count,
    max_processes,
    scan_pos,            \* 1-based position of "for d in child_processes.keys()"
    printed_ok,          \* workspaces for which "completed successfully..." was printed
    progress,            \* the progress line printed by the last pass of the loop
                         \* that went on to sleep: <<record>>, None if it printed none
    summary,             \* the summary printed, None or <<record>>
    exit_status,         \* exit status of the orchestrator, None or <<n>>
    error,               \* uncaught exception that ended main, "none" otherwise
    sync_log,            \* the actions run in the orchestrating process, in order:
                         \* [ws |-> workspace, ok |-> whether the action returned]
    lock_copied,         \* the paths d of the init loop for which the copy of the
                         \* saved lock file to <d>/.terraform.lock.hcl returned
    start_count,         \* per path: number of Process.start() calls
    tf,                  \* a Terraform object and the method call in progress on it
    plan_files           \* the paths d of the workspace list for which
                         \* <d>/<basename(d)>.tfplan exists

vars == << stage, parallel, workspaces, phys_pages, env, real_dir, pc, setup_idx, child_keys,
           proc, lock_held, waiting_processes, running_processes, failed_processes,
           completed_processes, loop_count, max_processes, scan_pos, printed_ok,
           progress, summary, exit_status, error, sync_log, lock_copied, start_count,
           tf, plan_files >>

inputVars == << stage, parallel, workspaces, phys_pages, env, real_dir >>
tfVars == << tf, plan_files >>
loopVars == << waiting_processes, running_processes, failed_processes,
               completed_processes, loop_count, max_processes, scan_pos,
               printed_ok, progress >>

\* ---------------------------------------------------------------- helpers
\* "d in lst" on a Python list
InList(d, lst) == \E i \in 1..Len(lst) : lst[i] = d

\* the number of occurrences of d in a list
Count(d, lst) == Cardinality({i \in 1..Len(lst) : lst[i] = d})

Range(lst) == {lst[i] : i \in 1..Len(lst)}

\* variant of the removal that leaves the list as it is
ListRemove_Kept(lst, d) == lst

\* variant of remove that drops the last element whatever d is
ListRemove_Last(lst, d) == SubSeq(lst, 1, Len(lst) - 1)

\* lst.remove(d): removes the first occurrence
ListRemove(lst, d) ==
    LET i == CHOOSE k \in 1..Len(lst) :
                 lst[k] = d /\ \A j \in 1..(k-1) : lst[j] # d
    IN SubSeq(lst, 1, i-1) \o SubSeq(lst, i+1, Len(lst))

\* child_processes[d] = ...: a new key goes last, an existing key keeps its place
DictSetKey(keys, d) == IF InList(d, keys) THEN keys ELSE Append(keys, d)

\* mp.Lock(): every task is handed a newly constructed lock, named here by its task
NewLock(d) == d

\* mp.Process(target=..., args=(mp.Lock(), d, ...)): not started.
\* exitcode: the code the process ended itself with, None before that.
\* signalled: a signal ended the process.  raised: the method call raised,
\* or an except clause of the target was entered.  tool: the process is gone
\* and the terraform binary it was running is still running.
NewProcess(d) == [state |-> "initial", exitcode |-> None, signalled |-> FALSE,
                  lock |-> NewLock(d), raised |-> FALSE, tool |-> FALSE]

NoProcess == [state |-> "absent", exitcode |-> None, signalled |-> FALSE,
              lock |-> "", raised |-> FALSE, tool |-> FALSE]

\* Process.exitcode, as the set of the values it can have: none while the
\* process has not ended, the code it ended itself with, and the negated
\* number of the signal for a process that a signal ended.  Main reads it
\* once per task, when it reaps the task.
ExitCodes(p) ==
    IF p.signalled THEN {-sig : sig \in Signals}
    ELSE {p.exitcode[i] : i \in 1..Len(p.exitcode)}

\* Process.is_alive()
IsAlive(p) == p.state \in {"run", "want", "crit", "done"}

\* variant of the budget that rounds the quotient up
ComputedBudget_Ceil(pages, per_process) ==
    ((PageSize \div KiB) * pages + KiB * per_process - 1) \div (KiB * per_process)

\* int(mem_mb / mem_per_process) with mem_mb = page_size * phys_pages / 1024.**2.
\* The page size is a multiple of 1024, so the quotient is computed on KiB, which
\* keeps the intermediate product within 32 bits.
ComputedBudget(pages, per_process) ==
    ((PageSize \div KiB) * pages) \div (KiB * per_process)

\* variants of the capacity test: one slot too many, one slot too few
AtCapacity_Late(n, max) == n > max
AtCapacity_Early(n, max) == n + 1 >= max

\* len(running_processes) >= max_processes
AtCapacity(n, max) == n >= max

\* variant of the failure test that misses a process ended by a signal
ExitFailed_Positive(code) == code > 0

\* child_processes[d].exitcode != 0
ExitFailed(code) == code # 0

\* variant of the loop's exit test that forgets the running list
LoopDone_WaitingOnly(running, waiting) == Len(waiting) = 0

\* len(running_processes) == 0 and len(waiting_processes) == 0
LoopDone(running, waiting) == Len(running) = 0 /\ Len(waiting) = 0

\* ------------------------------------------------------------------- Init
\* Workspace paths are opaque names, so the lists are taken up to renaming:
\* the first path of a list is ws/a, the next new one ws/b, and so on.
Rank(p) == CHOOSE i \in 1..Len(PathOrder) : PathOrder[i] = p
FirstUse(ws) ==
    \A i \in 1..Len(ws) :
        \/ Rank(ws[i]) = 1
        \/ \E j \in 1..(i-1) : Rank(ws[j]) + 1 >= Rank(ws[i])
WorkspaceLists == {ws \in UNION {[1..n -> Paths] : n \in 1..MaxWs} : FirstUse(ws)}

\* the hosts modelled: 256 MiB plus k times 512 MiB of 4 KiB pages, so that the
\* quotient by 512 MiB is k and is never exact
HostPages(k) == 65536 + 131072 * k

\* ------------------------------------------------------- Terraform object
\* no method call in progress
\* no method call in progress.  plan_found: what apply's test for the plan file
\* found; cmds: the commands subprocess.run has run; plan_result: how
\* plan() ended; result: how the method called ended
TfIdle == [pc |-> "idle", method |-> "none", work_dir |-> "", capture |-> FALSE,
           plan_found |-> FALSE, cmds |-> << >>, plan_result |-> "none",
           result |-> "none"]

\* subprocess.run of the terraform binary: it exits with 0 and output that
\* is UTF-8, exits with 0 and output that is not, exits non-zero, or cannot
\* be run at all
ProcessOutcomes == {"ok", "undecodable", "nonzero", "oserror"}

\* the tool exited with 0
ExitedOk(outcome) == outcome \in {"ok", "undecodable"}

\* how a method ends after subprocess.run: "raise Exception(e)" when run
\* itself raised, CalledProcessError from check_returncode(), and with
\* capture_output UnicodeDecodeError from p.stdout.decode('utf-8'); else a
\* return
RunResult(outcome, capture) ==
    CASE outcome = "oserror" -> "Exception"
      [] outcome = "nonzero" -> "CalledProcessError"
      [] outcome = "undecodable" /\ capture -> "UnicodeDecodeError"
      [] OTHER -> "returned"

\* the paths that name the directory of d, plan file name included
SameDir(d) == {e \in Paths : real_dir[e] = real_dir[d]}

\* variant of the test that never asks for a plan
NeedsPlan_Never(work_dir, files) == FALSE

\* not os.path.exists(os.path.join(self._work_dir, self._plan_file))
NeedsPlan(work_dir, files) == work_dir \notin files

\* A method call taken as a whole: the ways it can end, each with the plan
\* files found on disk afterwards.
\* init: "terraform init" writes no plan file
InitResults(work_dir, files, capture) ==
    {[result |-> RunResult(o, capture), files |-> files] : o \in ProcessOutcomes}

\* the runs of "terraform plan -out=<plan file>": a run that exits with 0
\* has written the file, a run that ends non-zero may have written it, and
\* a tool that could not be run has written nothing
PlanRuns ==
    {r \in [outcome : ProcessOutcomes, wrote : BOOLEAN] :
        /\ ExitedOk(r.outcome) => r.wrote
        /\ r.outcome = "oserror" => ~r.wrote}

\* plan: how the method ends after each run of the tool
PlanResults(work_dir, files, capture) ==
    {[result |-> RunResult(r.outcome, capture),
      files |-> IF r.wrote THEN files \cup SameDir(work_dir) ELSE files] :
        r \in PlanRuns}

\* apply: self.plan() when the plan file is missing, its exception passed
\* on; then "terraform apply <plan file>"
ApplyResults(work_dir, files, capture) ==
    LET planned == IF NeedsPlan(work_dir, files)
                   THEN PlanResults(work_dir, files, capture)
                   ELSE {[result |-> "returned", files |-> files]}
    IN {r \in planned : r.result # "returned"}
       \cup {[result |-> RunResult(o, capture), files |-> r.files] :
                 o \in ProcessOutcomes, r \in {q \in planned : q.result = "returned"}}

\* tf.init / tf.plan / tf.apply, by stage
MethodResults(st, work_dir, files, capture) ==
    CASE st = "init" -> InitResults(work_dir, files, capture)
      [] st = "plan" -> PlanResults(work_dir, files, capture)
      [] OTHER -> ApplyResults(work_dir, files, capture)

\* the ways the paths of a workspace list can name directories: a path names
\* its own directory or that of a path before it in PathOrder
DirMaps(ws) ==
    {f \in [Paths -> Paths] :
        \A d \in Paths :
            /\ Rank(f[d]) <= Rank(d)
            /\ f[f[d]] = f[d]
            /\ d \notin Range(ws) => f[d] = d}

Init ==
    /\ stage \in Stages
    /\ parallel \in BOOLEAN
    /\ workspaces \in WorkspaceLists
    /\ phys_pages \in {HostPages(k) : k \in 0..MaxMemSteps}
    /\ env \in [MEM_PER_PROCESS : {None, <<256>>}, MAX_PROCESSES : {None, <<2>>}]
    /\ real_dir \in DirMaps(workspaces)
    /\ pc = "setup"
    /\ setup_idx = 1
    /\ child_keys = << >>
    /\ proc = [d \in Paths |-> NoProcess]
    /\ lock_held = {}
    /\ waiting_processes = << >>
    /\ running_processes = << >>
    /\ failed_processes = << >>
    /\ completed_processes = 0
    /\ loop_count = 0
    /\ max_processes = [kind |-> "unset", val |-> 0]
    /\ scan_pos = 1
    /\ printed_ok = << >>
    /\ progress = None
    /\ summary = None
    /\ exit_status = None
    /\ error = "none"
    /\ sync_log = << >>
    /\ lock_copied = {}
    /\ start_count = [d \in Paths |-> 0]
    /\ tf = TfIdle
    /\ plan_files \in {files \in SUBSET Range(workspaces) :
                          \A d \in files : SameDir(d) \subseteq files}

\* ------------------------------------------------------------ main: setup
\* an uncaught exception, or sys.exit(1): the orchestrator ends with status 1
Exit1(err) ==
    /\ pc' = "exited"
    /\ exit_status' = <<1>>
    /\ error' = err

SetupDone == setup_idx > Len(workspaces)

\* variant of the loop body that goes on to the next workspace after a failure
RegisterOrRun_Continue(d, res) ==
    IF parallel
    THEN /\ child_keys' = DictSetKey(child_keys, d)
         /\ proc' = [proc EXCEPT ![d] = NewProcess(d)]
         /\ setup_idx' = setup_idx + 1
         /\ UNCHANGED << pc, exit_status, error, sync_log, plan_files >>
    ELSE /\ sync_log' = Append(sync_log, [ws |-> d, ok |-> res.result = "returned"])
         /\ plan_files' = res.files
         /\ setup_idx' = setup_idx + 1
         /\ UNCHANGED << pc, exit_status, error, child_keys, proc >>

\* the body shared by the stage loops: register a Process under key d in
\* parallel mode, otherwise run the action in the orchestrating process
\* (res is how the method call ends) and sys.exit(1) when it raises
RegisterOrRun(d, res) ==
    IF parallel
    THEN /\ child_keys' = DictSetKey(child_keys, d)
         /\ proc' = [proc EXCEPT ![d] = NewProcess(d)]
         /\ setup_idx' = setup_idx + 1
         /\ UNCHANGED << pc, exit_status, error, sync_log, plan_files >>
    ELSE /\ sync_log' = Append(sync_log, [ws |-> d, ok |-> res.result = "returned"])
         /\ plan_files' = res.files
         /\ IF res.result = "returned"
            THEN /\ setup_idx' = setup_idx + 1
                 /\ UNCHANGED << pc, exit_status, error >>
            ELSE /\ Exit1("none")
                 /\ UNCHANGED setup_idx
         /\ UNCHANGED << child_keys, proc >>

\* stage install: tf.install(tf_version); an exception is not caught
Install ==
    /\ pc = "setup" /\ stage = "install" /\ ~SetupDone
    /\ \E ok \in BOOLEAN :
         IF ok
         THEN /\ setup_idx' = Len(workspaces) + 1
              /\ UNCHANGED << pc, exit_status, error >>
         ELSE /\ Exit1("InstallError")
              /\ UNCHANGED setup_idx
    /\ UNCHANGED << inputVars, tfVars, loopVars, child_keys, proc, lock_held, summary,
                    sync_log, lock_copied, start_count >>

\* variant of the first init that goes on to the other workspaces whether or
\* not the init returned
FirstInit_Continue ==
    /\ pc = "setup" /\ stage = "init" /\ setup_idx = 1
    /\ \E ok \in BOOLEAN :
         sync_log' = Append(sync_log, [ws |-> workspaces[1], ok |-> ok])
    /\ setup_idx' = 2
    /\ UNCHANGED << pc, exit_status, error >>
    /\ UNCHANGED << inputVars, tfVars, loopVars, child_keys, proc, lock_held, summary,
                    lock_copied, start_count >>

\* stage init, first workspace: initialised in the orchestrating process, then
\* its .terraform.lock.hcl is saved; tf.init raising ends main through
\* sys.exit(1), shutil.copy raising (init left no lock file) is not caught
FirstInit ==
    /\ pc = "setup" /\ stage = "init" /\ setup_idx = 1
    /\ \E ok \in BOOLEAN, saved \in BOOLEAN :
         /\ sync_log' = Append(sync_log, [ws |-> workspaces[1], ok |-> ok])
         /\ IF ok /\ saved
            THEN /\ setup_idx' = 2
                 /\ UNCHANGED << pc, exit_status, error >>
            ELSE /\ Exit1(IF ok THEN "FileNotFoundError" ELSE "none")
                 /\ UNCHANGED setup_idx
    /\ UNCHANGED << inputVars, tfVars, loopVars, child_keys, proc, lock_held, summary,
                    lock_copied, start_count >>

\* stage init, for d in workspaces[1:]: the saved lock file is copied into d
\* (shutil.copy raising is not caught), then d is registered or initialised
InitStep ==
    /\ pc = "setup" /\ stage = "init" /\ setup_idx > 1 /\ ~SetupDone
    /\ LET d == workspaces[setup_idx] IN
         \E copied \in BOOLEAN :
            IF copied
            THEN /\ lock_copied' = lock_copied \cup {d}
                 /\ \E res \in MethodResults(stage, d, plan_files, FALSE) : RegisterOrRun(d, res)
            ELSE /\ Exit1("FileNotFoundError")
                 /\ UNCHANGED << lock_copied, setup_idx, child_keys, proc, sync_log,
                                 plan_files >>
    /\ UNCHANGED << inputVars, tf, loopVars, lock_held, summary, start_count >>

\* stage plan, for d in workspaces
PlanStep ==
    /\ pc = "setup" /\ stage = "plan" /\ ~SetupDone
    /\ \E res \in MethodResults(stage, workspaces[setup_idx], plan_files, FALSE) :
         RegisterOrRun(workspaces[setup_idx], res)
    /\ UNCHANGED << inputVars, tf, loopVars, lock_held, summary, lock_copied, start_count >>

\* stage apply, for d in workspaces
ApplyStep ==
    /\ pc = "setup" /\ stage = "apply" /\ ~SetupDone
    /\ \E res \in MethodResults(stage, workspaces[setup_idx], plan_files, FALSE) :
         RegisterOrRun(workspaces[setup_idx], res)
    /\ UNCHANGED << inputVars, tf, loopVars, lock_held, summary, lock_copied, start_count >>

\* "if args.enable_parallelism:" is false: main returns
ExitSequential ==
    /\ pc = "setup" /\ SetupDone /\ ~parallel
    /\ pc' = "exited"
    /\ exit_status' = <<0>>
    /\ UNCHANGED << inputVars, tfVars, loopVars, setup_idx, child_keys, proc, lock_held,
                    summary, error, sync_log, lock_copied, start_count >>

\* the budget and the loop's lists.  mem_mb / mem_per_process raises TypeError
\* when MEM_PER_PROCESS is set (a str); it is evaluated before MAX_PROCESSES
\* is looked up, being the default argument of that lookup.
EnterParallel ==
    /\ pc = "setup" /\ SetupDone /\ parallel
    /\ IF env.MEM_PER_PROCESS # None
       THEN /\ Exit1("TypeError")
            /\ UNCHANGED loopVars
       ELSE /\ max_processes' =
                 IF env.MAX_PROCESSES # None
                 THEN [kind |-> "str", val |-> env.MAX_PROCESSES[1]]
                 ELSE [kind |-> "int",
                       val |-> ComputedBudget(phys_pages, DefaultMemPerProcess)]
            /\ waiting_processes' = child_keys
            /\ failed_processes' = << >>
            /\ running_processes' = << >>
            /\ completed_processes' = 0
            /\ loop_count' = 0
            /\ pc' = "scan"
            /\ scan_pos' = 1
            /\ UNCHANGED << printed_ok, progress, exit_status, error >>
    /\ UNCHANGED << inputVars, tfVars, setup_idx, child_keys, proc, lock_held, summary,
                    sync_log, lock_copied, start_count >>

\* ------------------------------------------------------- main: the loop
\* one iteration of "for d in child_processes.keys()"
ScanStep ==
    /\ pc = "scan" /\ scan_pos <= Len(child_keys)
    /\ LET d == child_keys[scan_pos] IN
       IF InList(d, waiting_processes)
       THEN IF max_processes.kind = "str"
            THEN \* int >= str raises TypeError
                 /\ Exit1("TypeError")
                 /\ UNCHANGED << loopVars, proc, start_count >>
            ELSE IF AtCapacity(Len(running_processes), max_processes.val)
            THEN \* continue
                 /\ scan_pos' = scan_pos + 1
                 /\ UNCHANGED << waiting_processes, running_processes, failed_processes,
                                 completed_processes, loop_count, max_processes,
                                 printed_ok, progress, proc, start_count,
                                 pc, exit_status, error >>
            ELSE \* start the task
                 /\ running_processes' = Append(running_processes, d)
                 /\ waiting_processes' = ListRemove(waiting_processes, d)
                 /\ proc' = [proc EXCEPT ![d].state = "run"]
                 /\ start_count' = [start_count EXCEPT ![d] = @ + 1]
                 /\ scan_pos' = scan_pos + 1
                 /\ UNCHANGED << failed_processes, completed_processes, loop_count,
                                 max_processes, printed_ok, progress,
                                 pc, exit_status, error >>
       ELSE IF InList(d, running_processes)
       THEN IF IsAlive(proc[d])
            THEN \* continue
                 /\ scan_pos' = scan_pos + 1
                 /\ UNCHANGED << waiting_processes, running_processes, failed_processes,
                                 completed_processes, loop_count, max_processes,
                                 printed_ok, progress, proc, start_count,
                                 pc, exit_status, error >>
            ELSE /\ \E code \in ExitCodes(proc[d]) :
                      IF ExitFailed(code)
                      THEN /\ failed_processes' = Append(failed_processes, d)
                           /\ UNCHANGED printed_ok
                      ELSE /\ printed_ok' = Append(printed_ok, d)
                           /\ UNCHANGED failed_processes
                 /\ running_processes' = ListRemove(running_processes, d)
                 /\ completed_processes' = completed_processes + 1
                 /\ scan_pos' = scan_pos + 1
                 /\ UNCHANGED << waiting_processes, loop_count, max_processes,
                                 progress, proc, start_count, pc, exit_status, error >>
       ELSE \* neither waiting nor running: nothing to do
            /\ scan_pos' = scan_pos + 1
            /\ UNCHANGED << waiting_processes, running_processes, failed_processes,
                            completed_processes, loop_count, max_processes,
                            printed_ok, progress, proc, start_count,
                            pc, exit_status, error >>
    /\ UNCHANGED << inputVars, tfVars, setup_idx, child_keys, lock_held, summary,
                    sync_log, lock_copied >>

\* the progress line
ProgressLine ==
    [running |-> Len(running_processes), waiting |-> Len(waiting_processes),
     completed |-> completed_processes, failed |-> Len(failed_processes)]

\* after the for loop: break, or print the progress line every 20th time and
\* count the iteration.  Only loop_count % 20 is ever read, so the counter is
\* kept modulo 20.
EndScan ==
    /\ pc = "scan" /\ scan_pos > Len(child_keys)
    /\ IF LoopDone(running_processes, waiting_processes)
       THEN /\ pc' = "summary"
            /\ UNCHANGED << loop_count, progress >>
       ELSE /\ progress' = IF loop_count % ProgressEvery = 0
                           THEN <<ProgressLine>> ELSE None
            /\ loop_count' = (loop_count + 1) % ProgressEvery
            /\ pc' = "sleep"
    /\ UNCHANGED << inputVars, tfVars, setup_idx, child_keys, proc, lock_held,
                    waiting_processes, running_processes, failed_processes,
                    completed_processes, max_processes, scan_pos, printed_ok,
                    summary, exit_status, error, sync_log, lock_copied, start_count >>

\* time.sleep(1), then the next "while True" iteration
Sleep ==
    /\ pc = "sleep"
    /\ pc' = "scan"
    /\ scan_pos' = 1
    /\ UNCHANGED << inputVars, tfVars, setup_idx, child_keys, proc, lock_held,
                    waiting_processes, running_processes, failed_processes,
                    completed_processes, loop_count, max_processes, printed_ok,
                    progress, summary, exit_status, error, sync_log, lock_copied,
                    start_count >>

\* variant of the summary that counts the successes off by the first workspace
SummaryLine_Short(ws, failed) ==
    [succeeded |-> Len(ws) - Len(failed) - 1, total |-> Len(ws), failed |-> failed]

\* "* {len(workspaces) - len(failed_processes)}/{len(workspaces)} ... completed
\* successfully", then the failed workspaces, one per line
SummaryLine(ws, failed) ==
    [succeeded |-> Len(ws) - Len(failed), total |-> Len(ws), failed |-> failed]

\* variant of the exit status that needs two failures
SummaryExit_Two(failed) == IF Len(failed) > 1 THEN 1 ELSE 0

\* sys.exit(1) when len(failed_processes) > 0, otherwise main returns
SummaryExit(failed) == IF Len(failed) > 0 THEN 1 ELSE 0

\* the summary and the exit status
Summary ==
    /\ pc = "summary"
    /\ summary' = << SummaryLine(workspaces, failed_processes) >>
    /\ exit_status' = << SummaryExit(failed_processes) >>
    /\ pc' = "exited"
    /\ UNCHANGED << inputVars, tfVars, loopVars, setup_idx, child_keys, proc, lock_held,
                    error, sync_log, lock_copied, start_count >>

\* ------------------------------------------------------- task processes
childUnchanged == << inputVars, tf, loopVars, pc, setup_idx, child_keys, summary,
                     exit_status, error, sync_log, lock_copied, start_count >>

\* variant of the exit code that ignores the exception
TargetExitCode_Zero(raised) == 0

\* the exit code of tf_init / tf_plan / tf_apply: sys.exit(1) after an
\* exception (an exception that escapes the target ends the process with 1
\* as well), 0 when the function returns
TargetExitCode(raised) == IF raised THEN 1 ELSE 0

\* the stages whose tool writes a plan file
PlanWriters == {"plan", "apply"}

\* during tf.plan(), or tf.apply() that found no plan file: the tool writes
\* the plan file while subprocess.run is still waiting for it
ToolWrite(d) ==
    /\ proc[d].state = "run"
    /\ stage \in PlanWriters
    /\ NeedsPlan(d, plan_files)
    /\ plan_files' = plan_files \cup SameDir(d)
    /\ UNCHANGED << childUnchanged, proc, lock_held >>

\* tf_init / tf_plan / tf_apply in a started process: tf.init(), tf.plan() or
\* tf.apply() returns or raises CalledProcessError, leaving the plan files
\* it wrote, and safe_print is entered with the output
ChildAction(d) ==
    /\ proc[d].state = "run"
    /\ \E res \in MethodResults(stage, d, plan_files, TRUE) :
         /\ res.result \in {"returned", "CalledProcessError"}
         /\ proc' = [proc EXCEPT ![d].state = "want",
                                 ![d].raised = (res.result = "CalledProcessError")]
         /\ plan_files' = res.files
    /\ UNCHANGED << childUnchanged, lock_held >>

\* the method raised and nothing is printed.  After an exception other than
\* CalledProcessError (subprocess.run could not run the tool, the output is
\* not UTF-8) the handler calls safe_print(lock, e2), which lacks two
\* arguments, so TypeError escapes the target; after CalledProcessError,
\* e1.stderr.decode('utf-8') can raise in the handler.  The lock is not
\* touched.
ChildActionError(d) ==
    /\ proc[d].state = "run"
    /\ \E res \in MethodResults(stage, d, plan_files, TRUE) :
         /\ res.result # "returned"
         /\ proc' = [proc EXCEPT ![d].state = "done", ![d].raised = TRUE]
         /\ plan_files' = res.files
    /\ UNCHANGED << childUnchanged, lock_held >>

\* safe_print: lock.acquire()
ChildAcquire(d) ==
    /\ proc[d].state = "want"
    /\ proc[d].lock \notin lock_held
    /\ lock_held' = lock_held \cup {proc[d].lock}
    /\ proc' = [proc EXCEPT ![d].state = "crit"]
    /\ UNCHANGED << childUnchanged, plan_files >>

\* safe_print: print(f); lock.release(); the process is still alive
ChildRelease(d) ==
    /\ proc[d].state = "crit"
    /\ lock_held' = lock_held \ {proc[d].lock}
    /\ proc' = [proc EXCEPT ![d].state = "done"]
    /\ UNCHANGED << childUnchanged, plan_files >>

\* safe_print: print(f) raises (the text cannot be encoded for stdout,
\* stdout is closed).  There is no try/finally, so lock.release() is
\* skipped; the exception reaches "except Exception", whose
\* safe_print(lock, e2) raises TypeError, or it escapes the handler it was
\* raised in.
ChildPrintError(d) ==
    /\ proc[d].state = "crit"
    /\ proc' = [proc EXCEPT ![d].state = "done", ![d].raised = TRUE]
    /\ UNCHANGED << childUnchanged, lock_held, plan_files >>

\* the target returns, calls sys.exit(1) or lets its exception escape: the
\* process ends
ChildExit(d) ==
    /\ proc[d].state = "done"
    /\ proc' = [proc EXCEPT ![d].state = "exited",
                            ![d].exitcode = <<TargetExitCode(proc[d].raised)>>]
    /\ UNCHANGED << childUnchanged, lock_held, plan_files >>

\* a live process ended by one of Signals, wherever it is: exitcode is the
\* negated signal number (ExitCodes) and a lock it holds stays held.  The signal ends the Python
\* process only: a terraform binary it was waiting for (waiting says whether
\* there was one) runs on.
ChildKilled(d) ==
    /\ IsAlive(proc[d])
    /\ \E waiting \in BOOLEAN :
         proc' = [proc EXCEPT ![d].state = "exited", ![d].signalled = TRUE,
                              ![d].tool = (waiting /\ proc[d].state = "run")]
    /\ UNCHANGED << childUnchanged, lock_held, plan_files >>

\* SIGINT in a live process: KeyboardInterrupt is raised where the process
\* is; no "except Exception" catches it, so it escapes the target and the
\* process ends with exit code 1.  A lock it holds stays held; during the
\* method call subprocess.run kills the tool before it passes the
\* exception on.
ChildInterrupted(d) ==
    /\ IsAlive(proc[d])
    /\ proc' = [proc EXCEPT ![d].state = "exited",
                            ![d].exitcode = <<TargetExitCode(TRUE)>>,
                            ![d].raised = (@ \/ proc[d].state = "run")]
    /\ UNCHANGED << childUnchanged, lock_held, plan_files >>

\* the tool left behind by a killed process writes its plan file
OrphanWrite(d) ==
    /\ proc[d].tool
    /\ stage \in PlanWriters
    /\ NeedsPlan(d, plan_files)
    /\ plan_files' = plan_files \cup SameDir(d)
    /\ UNCHANGED << childUnchanged, proc, lock_held >>

\* the tool left behind by a killed process ends
OrphanEnd(d) ==
    /\ proc[d].tool
    /\ proc' = [proc EXCEPT ![d].tool = FALSE]
    /\ UNCHANGED << childUnchanged, lock_held, plan_files >>

\* a step of the task's own code
ChildStep(d) ==
    \/ ChildAction(d)
    \/ ChildActionError(d)
    \/ ChildAcquire(d)
    \/ ChildRelease(d)
    \/ ChildPrintError(d)
    \/ ChildExit(d)

\* ------------------------------------------------ Terraform.plan / apply
tfUnchanged == << inputVars, loopVars, pc, setup_idx, child_keys, proc, lock_held,
                  summary, exit_status, error, sync_log, lock_copied, start_count >>

\* Terraform(work_dir=d, capture_output=capture).plan()
TfCallPlan(d) ==
    /\ tf.pc = "idle"
    /\ \E capture \in BOOLEAN :
         tf' = [TfIdle EXCEPT !.pc = "plan", !.method = "plan", !.work_dir = d,
                              !.capture = capture]
    /\ UNCHANGED << tfUnchanged, plan_files >>

\* Terraform(work_dir=d, capture_output=capture).apply()
TfCallApply(d) ==
    /\ tf.pc = "idle"
    /\ \E capture \in BOOLEAN :
         tf' = [TfIdle EXCEPT !.pc = "apply_check", !.method = "apply", !.work_dir = d,
                              !.capture = capture]
    /\ UNCHANGED << tfUnchanged, plan_files >>

\* apply: the test for the plan file; self.plan() when it is missing
TfApplyCheck ==
    /\ tf.pc = "apply_check"
    /\ tf' = [tf EXCEPT !.plan_found = ~NeedsPlan(tf.work_dir, plan_files),
                        !.pc = IF NeedsPlan(tf.work_dir, plan_files)
                               THEN "plan" ELSE "apply"]
    /\ UNCHANGED << tfUnchanged, plan_files >>

\* plan: the tool started by subprocess.run writes the plan file while
\* plan() is still waiting for it
TfToolWrite ==
    /\ tf.pc = "plan"
    /\ NeedsPlan(tf.work_dir, plan_files)
    /\ plan_files' = plan_files \cup SameDir(tf.work_dir)
    /\ UNCHANGED << tfUnchanged, tf >>

\* the terraform plan of another process (another task, the tool a killed
\* task left behind) writes the plan file of d, whatever this object is doing
TfOtherWrite(d) ==
    /\ NeedsPlan(d, plan_files)
    /\ plan_files' = plan_files \cup SameDir(d)
    /\ UNCHANGED << tfUnchanged, tf >>

\* plan: "terraform plan -out=<plan file>" in the work dir ends (PlanRuns),
\* having written the plan file unless it is there already.  An exception
\* leaves plan, and apply when plan was called from it.
TfPlan ==
    /\ tf.pc = "plan"
    /\ \E r \in PlanRuns :
         /\ plan_files' = IF r.wrote THEN plan_files \cup SameDir(tf.work_dir)
                          ELSE plan_files
         /\ LET result == RunResult(r.outcome, tf.capture)
                on == result = "returned" /\ tf.method = "apply"
            IN tf' = [tf EXCEPT
                        !.cmds = IF r.outcome = "oserror" THEN @ ELSE Append(@, "plan"),
                        !.pc = IF on THEN "apply" ELSE "idle",
                        !.plan_result = result,
                        !.result = IF on THEN @ ELSE result]
    /\ UNCHANGED tfUnchanged

\* apply: "terraform apply <plan file>" in the work dir
TfApply ==
    /\ tf.pc = "apply"
    /\ \E outcome \in ProcessOutcomes :
         tf' = [tf EXCEPT
                  !.cmds = IF outcome = "oserror" THEN @ ELSE Append(@, "apply"),
                  !.pc = "idle",
                  !.result = RunResult(outcome, tf.capture)]
    /\ UNCHANGED << tfUnchanged, plan_files >>

\* ------------------------------------------------------- specifications
MainStep ==
    \/ Install
    \/ FirstInit
    \/ InitStep
    \/ PlanStep
    \/ ApplyStep
    \/ ExitSequential
    \/ EnterParallel
    \/ ScanStep
    \/ EndScan
    \/ Sleep
    \/ Summary

Next ==
    \/ MainStep
    \/ \E d \in Paths : ChildAction(d)
    \/ \E d \in Paths : ChildActionError(d)
    \/ \E d \in Paths : ChildAcquire(d)
    \/ \E d \in Paths : ChildRelease(d)
    \/ \E d \in Paths : ChildExit(d)
    \/ \E d \in Paths : ChildKilled(d)
    \/ \E d \in Paths : ChildInterrupted(d)
    \/ \E d \in Paths : ToolWrite(d)
    \/ \E d \in Paths : ChildPrintError(d)
    \/ \E d \in Paths : OrphanWrite(d)
    \/ \E d \in Paths : OrphanEnd(d)

Spec == Init /\ [][Next]_vars

\* the scheduler keeps running and every live process keeps taking its steps
Fairness ==
    /\ WF_vars(MainStep)
    /\ \A d \in Paths : WF_vars(ChildStep(d))

FairSpec == Spec /\ Fairness

\* the method calls made on a Terraform object, one at a time, while the
\* tool it runs and the plans of other processes write plan files
NextTf ==
    \/ \E d \in Paths : TfCallPlan(d)
    \/ \E d \in Paths : TfCallApply(d)
    \/ TfApplyCheck
    \/ TfToolWrite
    \/ \E d \in Paths : TfOtherWrite(d)
    \/ TfPlan
    \/ TfApply

SpecTf == Init /\ [][NextTf]_vars

\* ----------------------------------------------------------- vocabulary
Registered == Range(child_keys)

\* max_processes holds an int: the loop can compare it
IntBudget == max_processes.kind = "int"

InLoop == pc \in {"scan", "sleep"}

\* the loop was left through its break
LoopLeft == pc = "summary" \/ (pc = "exited" /\ summary # None)

\* the process has ended and its exit code is 0, is not 0
ExitedZero(d) == proc[d].state = "exited" /\ ExitCodes(proc[d]) = {0}
ExitedNonZero(d) == proc[d].state = "exited" /\ 0 \notin ExitCodes(proc[d])

\* observed terminal: started, exited, and in neither list
Terminal(d) ==
    /\ d \in Registered
    /\ max_processes.kind # "unset"
    /\ ~InList(d, waiting_processes)
    /\ ~InList(d, running_processes)

\* ------------------------------------------------------------------ C1
C1_Bounded ==
    max_processes.kind # "unset" => Len(running_processes) <= max_processes.val

C1_StartGuard ==
    \A d \in Paths :
        start_count'[d] # start_count[d] =>
            /\ pc = "scan"
            /\ IntBudget
            /\ InList(d, waiting_processes)
            /\ Len(running_processes) < max_processes.val
            /\ start_count'[d] = start_count[d] + 1
            /\ proc'[d].state = "run"

\* C1: the running list never holds more tasks than the budget, and a process
\* is started only by a scan step that finds its task waiting while the
\* running count is strictly below the budget.
C1_BudgetRespected == [] C1_Bounded /\ [][C1_StartGuard]_vars

\* the budget binds: one task was started and runs, the scan has passed the
\* other and left it waiting
C1_Witness ==
    /\ IntBudget /\ max_processes.val = 1
    /\ Len(running_processes) = 1
    /\ Len(waiting_processes) = 1
    /\ pc = "scan" /\ scan_pos > Len(child_keys)

\* ------------------------------------------------------------------ C2
\* C2: with an integer budget of at least 1, once the loop is entered it
\* eventually breaks with waiting and running both empty, given that every
\* started process eventually exits.
C2_LoopTerminates ==
    (InLoop /\ IntBudget /\ max_processes.val >= 1)
        ~> (LoopLeft /\ Len(waiting_processes) = 0 /\ Len(running_processes) = 0)

\* two tasks were run one at a time and the loop was left
C2_Witness ==
    /\ LoopLeft
    /\ IntBudget /\ max_processes.val = 1
    /\ Len(child_keys) = 2
    /\ \A d \in Registered : start_count[d] = 1

\* ------------------------------------------------------------------ C3
\* C3: after the loop, a registered task is in the failed list exactly once if
\* its process exited non-zero and not at all if it exited with 0; success
\* and failure are never both reported for a task.
C3_FailedIffNonZero ==
    LoopLeft =>
        \A d \in Registered :
            /\ ExitedNonZero(d) => Count(d, failed_processes) = 1
            /\ ExitedZero(d) => Count(d, failed_processes) = 0
            /\ ExitedZero(d) \/ ExitedNonZero(d)
            /\ ~(InList(d, failed_processes) /\ InList(d, printed_ok))
            /\ InList(d, failed_processes) \/ InList(d, printed_ok)

\* one task was ended by a signal and is reported failed, one succeeded
C3_Witness ==
    /\ LoopLeft
    /\ \E d1, d2 \in Registered :
         /\ proc[d1].signalled /\ -9 \in ExitCodes(proc[d1])
         /\ ExitCodes(proc[d2]) = {0}
         /\ failed_processes = << d1 >>
         /\ printed_ok = << d2 >>

\* ------------------------------------------------------------------ C4
\* C4 as stated: the succeeded and failed counts of the summary add up to the
\* number of registered tasks, which is also the total printed.
C4_SummaryCountsTasks ==
    summary # None =>
        /\ summary[1].succeeded + Len(summary[1].failed) = Len(child_keys)
        /\ summary[1].total = Len(child_keys)

\* C4 as amended: the succeeded and failed counts of the summary add up to the
\* number of entries of the workspace list, which is the total printed; the
\* failed workspaces are the registered tasks that exited non-zero; the tasks
\* registered are the distinct paths of the list for plan and apply, the
\* distinct paths of workspaces[1:] for init, and none for install.
C4_SummaryCountsEntries ==
    summary # None =>
        /\ summary[1].succeeded + Len(summary[1].failed) = Len(workspaces)
        /\ summary[1].total = Len(workspaces)
        /\ Range(summary[1].failed) = {d \in Registered : ExitedNonZero(d)}
        /\ Len(child_keys) <= Len(workspaces)
        /\ stage \in {"plan", "apply"} => Registered = Range(workspaces)
        /\ stage = "init" => Registered = Range(Tail(workspaces))
        /\ stage = "install" => Registered = {}
        /\ Len(child_keys) = Cardinality(Registered)

\* an init run over two workspaces: one task, which failed, and the first
\* workspace counted as succeeded
C4_Witness ==
    /\ summary # None
    /\ stage = "init"
    /\ Len(workspaces) = 2 /\ Len(child_keys) = 1
    /\ summary[1].succeeded = 1 /\ Len(summary[1].failed) = 1

\* ------------------------------------------------------------------ C5
\* C5: once the loop has ended, the orchestrator exits with status 1 if a
\* task's process exited non-zero and with status 0 if none did; in parallel
\* mode it never exits with 0 after a process exited non-zero.
C5_ExitStatus ==
    /\ (pc = "exited" /\ summary # None) =>
          exit_status = IF \E d \in Registered : ExitedNonZero(d) THEN <<1>> ELSE <<0>>
    /\ (pc = "exited" /\ parallel /\ exit_status = <<0>>) =>
          \A d \in Paths : ~ExitedNonZero(d)

\* one of two tasks failed and the orchestrator exited with 1
C5_Witness ==
    /\ pc = "exited" /\ summary # None
    /\ exit_status = <<1>>
    /\ Len(failed_processes) = 1 /\ Len(printed_ok) = 1

\* ------------------------------------------------------------------ C6
C6_AllTerminalAtExit ==
    (pc \in {"summary", "exited"} /\ IntBudget) =>
        /\ LoopDone(running_processes, waiting_processes)
        /\ \A d \in Registered : start_count[d] = 1 /\ Terminal(d) /\ ~IsAlive(proc[d])

C6_FailureContinues ==
    Len(failed_processes') > Len(failed_processes) => pc' = "scan"

\* C6: a failure does not end the loop: the step that records a failure goes
\* on scanning, the loop is left only when every registered task was started
\* once and observed terminal, and once a failure is recorded the loop still
\* reaches its end with every task terminal.
C6_NoFailFast ==
    /\ [] C6_AllTerminalAtExit
    /\ [][C6_FailureContinues]_vars
    /\ (InLoop /\ IntBudget /\ max_processes.val >= 1 /\ Len(failed_processes) > 0)
          ~> (pc = "exited" /\ summary # None /\ \A d \in Registered : Terminal(d))

\* budget 1: the first task failed, the one after it was still run and succeeded
C6_Witness ==
    /\ pc = "exited" /\ summary # None
    /\ max_processes.val = 1
    /\ Len(child_keys) = 2
    /\ failed_processes = << child_keys[1] >>
    /\ printed_ok = << child_keys[2] >>

\* ------------------------------------------------------------------ C7
\* the lifecycle state of the task registered under d
Life(d) ==
    IF max_processes.kind = "unset" \/ d \notin Registered THEN "New"
    ELSE IF InList(d, waiting_processes) THEN "Waiting"
    ELSE IF InList(d, running_processes) THEN "Running"
    ELSE IF InList(d, failed_processes) THEN "Failed"
    ELSE "Completed"

C7_Step ==
    \A d \in Paths :
        Life(d)' # Life(d) =>
            << Life(d), Life(d)' >> \in
                { << "New", "Waiting" >>, << "Waiting", "Running" >>,
                  << "Running", "Completed" >>, << "Running", "Failed" >> }

C7_StartedOnce ==
    \A d \in Paths :
        /\ start_count[d] <= 1
        /\ Life(d) \in {"New", "Waiting"} <=> start_count[d] = 0
        /\ Count(d, waiting_processes) + Count(d, running_processes) <= 1

\* C7: a task only goes from Waiting to Running and from Running to Completed
\* or Failed; nothing leaves a terminal state, a running task is never put
\* back, and a process is started at most once.
C7_Lifecycle == [][C7_Step]_vars /\ [] C7_StartedOnce

\* a failed task stays failed while the task after it is running
C7_Witness ==
    /\ InLoop
    /\ \E d, e \in Registered :
         /\ Life(d) = "Failed" /\ Life(e) = "Running"
         /\ start_count[d] = 1 /\ start_count[e] = 1

\* ------------------------------------------------------------------ C8
\* C8: at no time are two task processes both between lock.acquire() and
\* lock.release() of safe_print.
C8_MutualExclusion ==
    Cardinality({d \in Paths : proc[d].state = "crit"}) <= 1

\* ------------------------------------------------------------------ C9
\* C9: every entry of the workspace list, a repeated path included, has its
\* own registered task: for plan and apply the number of registered tasks is
\* the number of entries.
C9_OneTaskPerEntry ==
    (parallel /\ stage \in {"plan", "apply"} /\ SetupDone) =>
        Len(child_keys) = Len(workspaces)

\* ------------------------------------------------------------------ C10
\* C10: at every progress snapshot and at the loop's end, the completed
\* counter is the number of tasks that exited with 0, the failed count the
\* number that exited non-zero, and running + waiting + completed + failed is
\* the number of registered tasks.
C10_Counters ==
    (IntBudget /\ pc \in {"sleep", "summary"}) =>
        /\ completed_processes =
              Cardinality({d \in Registered : Terminal(d) /\ ExitedZero(d)})
        /\ Len(failed_processes) =
              Cardinality({d \in Registered : Terminal(d) /\ ExitedNonZero(d)})
        /\ Len(running_processes) + Len(waiting_processes)
              + completed_processes + Len(failed_processes) = Len(child_keys)

\* ------------------------------------------------------------------ C11
\* parallel mode, the stage's loop is over and nothing was registered: stage
\* install, or stage init with a single workspace
ZeroTasks == parallel /\ SetupDone /\ child_keys = << >>

\* C11 as stated: with zero tasks registered the summary reports 0 succeeded
\* out of 0 and the exit status is 0.
C11_ZeroOfZero ==
    (ZeroTasks /\ summary # None) =>
        /\ summary = << [succeeded |-> 0, total |-> 0, failed |-> << >>] >>
        /\ pc = "exited" => exit_status = <<0>>

\* C11 as amended: with zero tasks registered the loop body runs once with an
\* empty scan and breaks: nothing is started, there is no sleep and no
\* progress line; the summary reports len(workspaces) succeeded out of
\* len(workspaces), which is at least 1, and the exit status is 0.  When
\* MEM_PER_PROCESS is set the budget computation raises before the loop: no
\* summary, exit status 1.
C11_ZeroTasks ==
    ZeroTasks =>
        /\ pc # "sleep" /\ scan_pos = 1
        /\ progress = None /\ loop_count = 0
        /\ \A d \in Paths : start_count[d] = 0
        /\ pc = "exited" =>
              IF env.MEM_PER_PROCESS # None
              THEN summary = None /\ exit_status = <<1>> /\ error = "TypeError"
              ELSE /\ summary = << [succeeded |-> Len(workspaces),
                                    total |-> Len(workspaces),
                                    failed |-> << >>] >>
                   /\ Len(workspaces) >= 1
                   /\ exit_status = <<0>>
                   /\ error = "none"

\* init over a single workspace in parallel mode: no task, summary 1/1
C11_Witness ==
    /\ ZeroTasks /\ stage = "init"
    /\ pc = "exited"
    /\ summary = << [succeeded |-> 1, total |-> 1, failed |-> << >>] >>

\* ------------------------------------------------------------------ C12
\* C12: without parallelism the workspaces' actions run in the orchestrating
\* process in list order; a failed action is the last one run and the exit
\* status is then 1; no process is registered or started and the loop is
\* never entered.
C12_Sequential ==
    ~parallel =>
        /\ pc \in {"setup", "exited"}
        /\ max_processes.kind = "unset" /\ summary = None
        /\ child_keys = << >>
        /\ \A d \in Paths : start_count[d] = 0 /\ proc[d] = NoProcess
        /\ Len(sync_log) <= Len(workspaces)
        /\ \A i \in 1..Len(sync_log) :
              /\ sync_log[i].ws = workspaces[i]
              /\ ~sync_log[i].ok => /\ i = Len(sync_log)
                                    /\ pc = "exited"
                                    /\ exit_status = <<1>>
        /\ (pc = "exited" /\ exit_status = <<0>>) =>
              \/ stage = "install"
              \/ /\ Len(sync_log) = Len(workspaces)
                 /\ \A i \in 1..Len(sync_log) : sync_log[i].ok

\* the first of two workspaces failed: exit status 1, the second never ran
C12_Witness ==
    /\ ~parallel /\ stage = "apply"
    /\ Len(workspaces) = 2
    /\ pc = "exited" /\ exit_status = <<1>>
    /\ Len(sync_log) = 1 /\ ~sync_log[1].ok

\* ------------------------------------------------------------------ C13
\* C13: with MAX_PROCESSES set to M >= 1 the scheduler runs with budget M:
\* the loop holds the integer M as its budget, never ends in an error, and
\* is left only with every registered task terminal.
C13_OverrideBudget ==
    (parallel /\ env.MAX_PROCESSES # None /\ env.MEM_PER_PROCESS = None) =>
        /\ error # "TypeError"
        /\ (pc = "exited" /\ SetupDone) =>
              /\ summary # None
              /\ \A d \in Registered : start_count[d] = 1 /\ Terminal(d)

\* ------------------------------------------------------------------ C14
\* the host's physical memory in KiB, and 512 MiB in KiB
HostKiB == (PageSize \div KiB) * phys_pages
DefaultTaskKiB == KiB * DefaultMemPerProcess

\* C14 as stated: the computed budget is at least 1 on every host.
C14_BudgetPositive ==
    IntBudget => max_processes.val >= 1

\* C14 as amended: the computed budget is a non-negative integer; it is at
\* least 1 exactly when the host has at least 512 MiB of physical memory.  On
\* a smaller host it is 0, and then no registered task is ever admitted: with
\* at least one task the loop is never left.
C14_BudgetPositiveIffMemory ==
    IntBudget =>
        /\ max_processes.val >= 0
        /\ max_processes.val >= 1 <=> HostKiB >= DefaultTaskKiB
        /\ (max_processes.val = 0 /\ child_keys # << >>) =>
              /\ InLoop
              /\ waiting_processes = child_keys
              /\ running_processes = << >>
              /\ \A d \in Paths : start_count[d] = 0

\* a 256 MiB host: budget 0, two tasks still waiting after a full scan
C14_Witness ==
    /\ IntBudget /\ max_processes.val = 0
    /\ HostKiB < DefaultTaskKiB
    /\ Len(waiting_processes) = 2
    /\ pc = "sleep"

\* ------------------------------------------------------------------ C15
\* the per-task estimate in MiB: MEM_PER_PROCESS when set, 512 otherwise
TaskMiB == IF env.MEM_PER_PROCESS # None THEN env.MEM_PER_PROCESS[1]
           ELSE DefaultMemPerProcess

\* C15: once the budget has been computed (no MAX_PROCESSES override) it is
\* the floor of the physical memory divided by the per-task estimate, with
\* the default estimate and with MEM_PER_PROCESS set alike.
C15_BudgetIsQuotient ==
    (parallel /\ SetupDone /\ pc # "setup" /\ env.MAX_PROCESSES = None) =>
        /\ IntBudget
        /\ max_processes.val * (KiB * TaskMiB) <= HostKiB
        /\ HostKiB < (max_processes.val + 1) * (KiB * TaskMiB)

\* ------------------------------------------------------------------ C16
\* the scheduler has seen the process of d exited and taken d off the
\* running list
Reaped(d) ==
    /\ start_count[d] > 0
    /\ proc[d].state = "exited"
    /\ ~InList(d, running_processes)

\* C16: a task's process exits with status 0 only if its action returned
\* (nothing was raised, and in the plan and apply stages the plan file is
\* there); if the action raised (CalledProcessError, or another error whose
\* report fails in turn) or the report of its output raised, the process
\* exits non-zero, and once the scheduler has observed the exit the task is
\* in the failed list and is not reported as succeeded.  A task reaped with
\* status 0 is reported as succeeded.
C16_ExitCodeTellsOutcome ==
    \A d \in Paths :
        /\ ExitedZero(d) =>
              /\ ~proc[d].raised
              /\ stage \in PlanWriters => d \in plan_files
        /\ (proc[d].state = "exited" /\ proc[d].raised) => ExitedNonZero(d)
        /\ (Reaped(d) /\ proc[d].raised) =>
              /\ Count(d, failed_processes) = 1
              /\ ~InList(d, printed_ok)
        /\ (Reaped(d) /\ ExitedZero(d)) =>
              /\ ~InList(d, failed_processes)
              /\ Count(d, printed_ok) = 1
        /\ IsAlive(proc[d]) => ExitCodes(proc[d]) = {}

\* two tasks with private locks: the action of one raised and it was reaped
\* as failed, the other returned and was reaped as succeeded
C16_Witness ==
    \E d1, d2 \in Registered :
        /\ Reaped(d1) /\ proc[d1].raised /\ ExitCodes(proc[d1]) = {1}
        /\ Reaped(d2) /\ ~proc[d2].raised /\ ExitCodes(proc[d2]) = {0}
        /\ failed_processes = << d1 >>
        /\ printed_ok = << d2 >>

\* ------------------------------------------------------------------ C17
\* the apply command is handed to subprocess.run by this step
ApplyInvoked == tf.pc = "apply" /\ tf'.pc = "idle"

\* how the implicit plan of an apply call ended, "none" when none was run
ImplicitPlan == IF tf.method = "apply" THEN tf.plan_result ELSE "none"

\* the apply command is run with the plan file in place: the test found the
\* file and no plan was run, or the test missed it and the plan returned
C17_ApplyStep ==
    ApplyInvoked =>
        /\ tf.work_dir \in plan_files
        /\ \/ tf.plan_found /\ tf.cmds = << >> /\ ImplicitPlan = "none"
           \/ ~tf.plan_found /\ tf.cmds = << "plan" >> /\ ImplicitPlan = "returned"

C17_ApplyState ==
    tf.method = "apply" =>
        /\ InList("apply", tf.cmds) =>
              /\ tf.work_dir \in plan_files
              /\ tf.cmds = IF tf.plan_found THEN << "apply" >>
                           ELSE << "plan", "apply" >>
        /\ tf.plan_found => ImplicitPlan = "none"
        /\ (tf.pc \in {"apply", "idle"} /\ ~tf.plan_found) => ImplicitPlan # "none"
        /\ ImplicitPlan \notin {"none", "returned"} =>
              /\ tf.pc = "idle"
              /\ ~InList("apply", tf.cmds)
              /\ tf.result = ImplicitPlan
        /\ tf.result = "returned" => InList("apply", tf.cmds)

Observed(d) == Count(d, failed_processes) + Count(d, printed_ok) = 1

\* C18: from the point where the lists are built, every registered task is in
\* exactly one of waiting, running and terminal: it is at most once in the
\* two lists taken together, and it is in neither exactly when its exit has
\* been observed; the lists hold registered tasks only.
C18_Partition ==
    max_processes.kind # "unset" =>
        /\ \A d \in Registered :
              /\ Count(d, waiting_processes) + Count(d, running_processes) <= 1
              /\ Terminal(d) <=> Observed(d)
              /\ Terminal(d) => Reaped(d)
              /\ InList(d, waiting_processes) => start_count[d] = 0
              /\ InList(d, running_processes) => start_count[d] = 1
              /\ Count(d, failed_processes) + Count(d, printed_ok) <= 1
        /\ Range(waiting_processes) \cup Range(running_processes) \subseteq Registered
        /\ Range(failed_processes) \cup Range(printed_ok) \subseteq Registered

\* budget 1, inside the loop: the first task is terminal, the second was
\* started after it and is running
C18_Witness ==
    /\ InLoop
    /\ Len(child_keys) = 2
    /\ Terminal(child_keys[1]) /\ Observed(child_keys[1])
    /\ running_processes = << child_keys[2] >>
    /\ waiting_processes = << >>

\* ------------------------------------------------------------------ C19
\* the first pass of the for loop is under way or has just ended
EnoughBudget == IntBudget /\ max_processes.val >= Len(child_keys)

\* with enough budget a task is waiting during the first scan only: the
\* scan has started the keys before scan_pos and nothing has been reaped
C19_FirstScan ==
    (EnoughBudget /\ waiting_processes # << >>) =>
        /\ pc = "scan"
        /\ running_processes = SubSeq(child_keys, 1, scan_pos - 1)
        /\ waiting_processes = SubSeq(child_keys, scan_pos, Len(child_keys))
        /\ completed_processes = 0
        /\ \A i \in 1..Len(child_keys) :
              start_count[child_keys[i]] = IF i < scan_pos THEN 1 ELSE 0

C19_Afterwards ==
    (EnoughBudget /\ waiting_processes = << >>) =>
        \A d \in Registered : start_count[d] = 1

\* the start that empties the waiting list leaves every task on the running list
C19_LastStart ==
    (EnoughBudget /\ waiting_processes # << >> /\ waiting_processes' = << >>) =>
        running_processes' = child_keys

\* C19: with a budget of at least the number of registered tasks, the first
\* scan starts every task it visits, so it ends with waiting empty and every
\* task on the running list; waiting is empty ever after and every task was
\* started once.
C19_AllStartedAtOnce ==
    [] (C19_FirstScan /\ C19_Afterwards) /\ [][C19_LastStart]_vars

\* budget 2, two tasks: the first scan is over and both are running
C19_Witness ==
    /\ EnoughBudget /\ max_processes.val = 2
    /\ pc = "scan" /\ scan_pos > Len(child_keys)
    /\ loop_count = 0 /\ completed_processes = 0
    /\ Len(child_keys) = 2
    /\ running_processes = child_keys
    /\ waiting_processes = << >>
    /\ \A d \in Registered : proc[d].state = "run"

\* ------------------------------------------------------------------ C20
BudgetOne == IntBudget /\ max_processes.val = 1

\* the number of tasks started so far
Started == Cardinality({d \in Registered : start_count[d] > 0})

C20_SerialState ==
    BudgetOne =>
        /\ Len(running_processes) <= 1
        /\ waiting_processes = SubSeq(child_keys, Started + 1, Len(child_keys))
        /\ \A d \in Registered :
              start_count[d] > 0 => (Reaped(d) /\ Observed(d)) \/ running_processes = << d >>

C20_SerialStep ==
    BudgetOne =>
        \A d \in Paths :
            start_count'[d] # start_count[d] =>
                /\ running_processes = << >>
                /\ d = child_keys[Started + 1]
                /\ \A e \in Registered :
                      start_count[e] > 0 => Reaped(e) /\ Observed(e)
                /\ running_processes' = << d >>

\* C20: with budget 1 at most one task is running at any time, the tasks are
\* started in registration order, and a task is started only when every task
\* started before it has been seen exited and taken off the running list.
C20_StrictlySerial == [] C20_SerialState /\ [][C20_SerialStep]_vars

\* budget 1, two tasks: the first has been reaped and the second, started
\* after that, is still running
C20_Witness ==
    /\ BudgetOne
    /\ Len(child_keys) = 2
    /\ Reaped(child_keys[1]) /\ Observed(child_keys[1])
    /\ proc[child_keys[2]].state = "run"
    /\ running_processes = << child_keys[2] >>
    /\ completed_processes = 1

\* ------------------------------------------------------------------ C21
\* position of a registered task in registration order
KeyIndex(d) == CHOOSE i \in 1..Len(child_keys) : child_keys[i] = d

\* the waiting list is the tail of the registration order
WaitingIsSuffix ==
    waiting_processes =
        SubSeq(child_keys, Len(child_keys) - Len(waiting_processes) + 1, Len(child_keys))

C21_StartStep ==
    \A d \in Paths :
        start_count'[d] # start_count[d] =>
            /\ d = child_keys[scan_pos]
            /\ waiting_processes[1] = d
            /\ \A e \in Registered :
                  KeyIndex(e) < KeyIndex(d) => ~InList(e, waiting_processes)
            /\ \A e \in Registered :
                  KeyIndex(e) > KeyIndex(d) => InList(e, waiting_processes')

\* C21: whatever the budget and whichever processes have exited, the waiting
\* list is a suffix of the registration order, and a start step takes the
\* head of the waiting list: no task registered earlier is waiting and every
\* task registered later still is.  A slot freed by reaping an earlier task
\* in a scan is given to the next waiting task in that same scan.
C21_RegistrationOrder == [] WaitingIsSuffix /\ [][C21_StartStep]_vars

\* budget 1, a later pass of the scan: the first task was reaped at position
\* 1 and the second, the head of the waiting list, started at position 2
C21_Witness ==
    /\ IntBudget /\ max_processes.val = 1
    /\ Len(child_keys) = 2
    /\ pc = "scan" /\ scan_pos = 3 /\ progress # None
    /\ Reaped(child_keys[1])
    /\ running_processes = << child_keys[2] >>
    /\ proc[child_keys[2]].state = "run"
    /\ waiting_processes = << >>

\* ------------------------------------------------------------------ C22
\* the first workspace was initialised in the orchestrating process
FirstInitRan == sync_log # << >> /\ sync_log[1].ws = workspaces[1]

\* the entries of workspaces[1:] the init loop has gone through
InitLoopDone == {workspaces[i] : i \in 2..(setup_idx - 1)}

\* C22: in the init stage the first workspace is initialised in the
\* orchestrating process before anything else, in parallel mode too.  When
\* that init fails main exits with status 1 with no task registered or
\* started and no lock file copied.  Otherwise every workspace that is
\* registered as a task or initialised in the process has received the saved
\* lock file first, the tasks are entries of workspaces[1:] only, and when
\* the loop is through all of them have the lock file.
C22_FirstInitFirst ==
    stage = "init" =>
        /\ (setup_idx > 1 \/ child_keys # << >> \/ lock_copied # {}
              \/ \E d \in Paths : start_count[d] > 0) =>
              FirstInitRan /\ sync_log[1].ok
        /\ (FirstInitRan /\ ~sync_log[1].ok) =>
              /\ pc = "exited" /\ exit_status = <<1>> /\ summary = None
              /\ sync_log = << [ws |-> workspaces[1], ok |-> FALSE] >>
              /\ child_keys = << >> /\ lock_copied = {}
              /\ \A d \in Paths : start_count[d] = 0 /\ proc[d] = NoProcess
        /\ Registered \subseteq lock_copied
        /\ \A i \in 2..Len(sync_log) : sync_log[i].ws \in lock_copied
        /\ InitLoopDone \subseteq lock_copied
        /\ lock_copied \subseteq Range(Tail(workspaces))
        /\ Registered = IF parallel THEN InitLoopDone ELSE {}
        /\ ~parallel => \A i \in 1..Len(sync_log) : sync_log[i].ws = workspaces[i]
        /\ SetupDone => lock_copied = Range(Tail(workspaces))

\* a parallel init over two workspaces: the first was initialised in the
\* process, the second got the lock file, is the only task and was started
C22_Witness ==
    /\ stage = "init" /\ parallel
    /\ workspaces = << "ws/a", "ws/b" >>
    /\ sync_log = << [ws |-> "ws/a", ok |-> TRUE] >>
    /\ lock_copied = {"ws/b"}
    /\ child_keys = << "ws/b" >>
    /\ start_count["ws/b"] = 1
    /\ start_count["ws/a"] = 0

====
